---- MODULE Spec2Model ----
(***************************************************************************)
(* gvrun (src/main.go): a launcher that builds an OCI bundle in a          *)
(* temporary directory, raises RLIMIT_NOFILE and runs `runsc` on it.        *)
(*                                                                         *)
(* A Go string is modelled as a sequence of chunks; a chunk is a run of    *)
(* bytes that holds no comma, or the comma itself.  "" is <<>>.             *)
(***************************************************************************)
EXTENDS Integers, Sequences, FiniteSets, TLC

VARIABLES
    pc,          \* position in main()/run()
    args,        \* flag.Args()
    runscBin,    \* *runscBin
    extraEnv,    \* *extraEnv
    extraDirs,   \* *extraDirs
    fs,          \* host filesystem: path -> real file or symbolic link
    rlimit0,     \* RLIMIT_NOFILE of the process when it started
    rlimit,      \* RLIMIT_NOFILE of the process now
    limit,       \* local `limit` of run()
    dir,         \* local `dir` of run() ("" before TempDir)
    bundle,      \* what is on disk under the temporary directory
    wd,          \* local `wd`
    binary,      \* local `binary`
    user,        \* locals uid, gid, username
    spec,        \* local `spec`: <<>> before it is built, <<s>> after
    defers,      \* deferred calls of run(), last pushed first
    specFileOpen,\* whether specFile is open
    err,         \* error returned by run() (or the panic message), "" if none
    panicking,   \* a panic is unwinding run()
    cmdArgs,     \* cmd.Args of the started command
    runtime,     \* the external runtime process
    setrlimitCalls, \* number of calls of syscall.Setrlimit
    exitCode     \* exit code of the launcher, -1 while it runs

vars == <<pc, args, runscBin, extraEnv, extraDirs, fs, rlimit0, rlimit, limit,
          dir, bundle, wd, binary, user, spec, defers, specFileOpen, err,
          panicking, cmdArgs, runtime, setrlimitCalls, exitCode>>

----------------------------------------------------------------------------
(* Bounds of the model.                                                    *)

MaxDirsLen == 3      \* chunks in the -extra_dirs value
MaxEnvLen == 2       \* chunks in the -extra_env value

----------------------------------------------------------------------------
(* Strings.                                                                *)

Comma == ","

Range(s) == {s[i] : i \in 1..Len(s)}

StringsOver(chunks, n) == UNION {[1..k -> chunks] : k \in 0..n}

RECURSIVE Split(_)
\* strings.Split(s, ",")
Split(s) ==
    IF Comma \notin Range(s)
    THEN <<s>>
    ELSE LET i == CHOOSE k \in 1..Len(s) :
                     s[k] = Comma /\ \A j \in 1..(k - 1) : s[j] # Comma
         IN  <<SubSeq(s, 1, i - 1)>> \o Split(SubSeq(s, i + 1, Len(s)))

Count(seq, x) == Cardinality({i \in 1..Len(seq) : seq[i] = x})

----------------------------------------------------------------------------
(* The host filesystem and filepath.EvalSymlinks.                          *)

Real == [kind |-> "real", to |-> <<>>]
Link(target) == [kind |-> "link", to |-> target]

WorkDir == <<"/wd">>

\* The six library paths of the Mounts literal, in its order.
FixedLibs ==
    << <<"/lib64/ld-linux-x86-64.so.2">>,
       <<"/lib/x86_64-linux-gnu/libc.so.6">>,
       <<"/lib/x86_64-linux-gnu/libpthread.so.0">>,
       <<"/usr/grte/v4/lib64/ld-linux-x86-64.so.2">>,
       <<"/usr/grte/v4/lib64/libc.so.6">>,
       <<"/usr/grte/v4/lib64/libpthread.so.0">> >>

FsCommon ==
    (<<"/wd">> :> Real) @@
    (<<"/wd", "/", "echo">> :> Real) @@
    (<<"/wd", "/e">> :> Real) @@
    (<<"/bin/echo">> :> Link(<<"/usr/bin/echo">>)) @@
    (<<"/usr/bin/echo">> :> Real) @@
    (<<"/lib64/ld-linux-x86-64.so.2">> :> Link(<<"/lib/x86_64-linux-gnu/ld-2.31.so">>)) @@
    (<<"/lib/x86_64-linux-gnu/ld-2.31.so">> :> Real) @@
    (<<"/lib/x86_64-linux-gnu/libc.so.6">> :> Link(<<"/lib/x86_64-linux-gnu/libc-2.31.so">>)) @@
    (<<"/lib/x86_64-linux-gnu/libc-2.31.so">> :> Real) @@
    (<<"/lib/x86_64-linux-gnu/libpthread.so.0">> :> Real)

FsGrteLibs ==
    (<<"/usr/grte/v4/lib64/ld-linux-x86-64.so.2">> :> Real) @@
    (<<"/usr/grte/v4/lib64/libc.so.6">> :> Real) @@
    (<<"/usr/grte/v4/lib64/libpthread.so.0">> :> Real)

\* /e is a chain of two symbolic links that ends in a directory.
FsChain ==
    (<<"/e">> :> Link(<<"/e2">>)) @@
    (<<"/e2">> :> Link(<<"/real_e">>)) @@
    (<<"/real_e">> :> Real)

\* /e is a loop of symbolic links.
FsLoop ==
    (<<"/e">> :> Link(<<"/e2">>)) @@
    (<<"/e2">> :> Link(<<"/e">>))

FileSystems ==
    { FsCommon @@ FsGrteLibs @@ FsChain,    \* every fixed path exists
      FsCommon @@ FsChain,                  \* no /usr/grte
      FsCommon @@ FsGrteLibs @@ FsLoop }

RECURSIVE Walk(_, _, _)
Walk(f, path, n) ==
    IF path \notin DOMAIN f THEN [ok |-> FALSE, path |-> <<>>]
    ELSE IF f[path].kind = "real" THEN [ok |-> TRUE, path |-> path]
    ELSE IF n = 0 THEN [ok |-> FALSE, path |-> <<>>]
    ELSE Walk(f, f[path].to, n - 1)

\* filepath.EvalSymlinks(path): the path with every link followed, or an
\* error (ok = FALSE) for a missing file or a loop.  EvalSymlinks("") is ".".
EvalSymlinks(f, path) ==
    IF path = <<>> THEN [ok |-> TRUE, path |-> <<".">>]
    ELSE Walk(f, path, Cardinality(DOMAIN f))

resolvedMountUnresolved(f, path) ==
    [ok |-> EvalSymlinks(f, path).ok,
     mount |-> [Type |-> "bind", Destination |-> path, Source |-> path,
                Options |-> <<>>]]

\* resolvedMount(path); ok = FALSE stands for the panic.
resolvedMount(f, path) ==
    LET r == EvalSymlinks(f, path)
    IN  [ok |-> r.ok,
         mount |-> [Type |-> "bind", Destination |-> path, Source |-> r.path,
                    Options |-> <<>>]]

\* The Mounts composite literal: resolvedMount of each path, in order.
MountsLiteral(f, paths) ==
    [ok |-> \A i \in 1..Len(paths) : resolvedMount(f, paths[i]).ok,
     mounts |-> [i \in 1..Len(paths) |-> resolvedMount(f, paths[i]).mount]]

PrependMount(mounts, m) == <<m>> \o mounts

\* spec.Mounts = append(spec.Mounts, m)
AppendMount(mounts, m) == Append(mounts, m)

RECURSIVE AppendResolved(_, _, _)
\* The range loop over dirs: stops at the first panic.
AppendResolved(f, mounts, dirs) ==
    IF dirs = <<>> THEN [ok |-> TRUE, mounts |-> mounts]
    ELSE LET r == resolvedMount(f, Head(dirs))
         IN  IF ~r.ok THEN [ok |-> FALSE, mounts |-> mounts]
             ELSE AppendResolved(f, AppendMount(mounts, r.mount), Tail(dirs))

----------------------------------------------------------------------------
(* filepath.Abs and originalUser.                                          *)

RelChunks == {"echo"}

IsAbs(path) == path # <<>> /\ Head(path) \notin RelChunks

\* filepath.Abs(path) with the working directory w.
Abs(w, path) == IF IsAbs(path) THEN path ELSE w \o <<"/">> \o path

\* strconv.ParseUint(s, 10, 32)
ParseUint(s) ==
    CASE s = "1000" -> [ok |-> TRUE, v |-> 1000]
      [] s = "100" -> [ok |-> TRUE, v |-> 100]
      [] OTHER -> [ok |-> FALSE, v |-> 0]   \* "abc", "4294967296"

SudoEnvs ==
    { ("SUDO_UID" :> "1000") @@ ("SUDO_GID" :> "100") @@ ("SUDO_USER" :> "alice"),
      ("SUDO_UID" :> "abc") @@ ("SUDO_GID" :> "100") @@ ("SUDO_USER" :> "alice"),
      ("SUDO_UID" :> "1000") @@ ("SUDO_GID" :> "4294967296") @@ ("SUDO_USER" :> "alice"),
      ("SUDO_UID" :> "1000") @@ ("SUDO_GID" :> "100"),
      ("SUDO_GID" :> "100") @@ ("SUDO_USER" :> "alice"),
      ("SUDO_UID" :> "1000") }

NoUser == [ok |-> FALSE, uid |-> 0, gid |-> 0, name |-> ""]

originalUser(env) ==
    IF "SUDO_UID" \notin DOMAIN env THEN NoUser
    ELSE IF ~ParseUint(env["SUDO_UID"]).ok THEN NoUser
    ELSE IF "SUDO_GID" \notin DOMAIN env THEN NoUser
    ELSE IF ~ParseUint(env["SUDO_GID"]).ok THEN NoUser
    ELSE IF "SUDO_USER" \notin DOMAIN env THEN NoUser
    ELSE [ok |-> TRUE, uid |-> ParseUint(env["SUDO_UID"]).v,
          gid |-> ParseUint(env["SUDO_GID"]).v, name |-> env["SUDO_USER"]]

----------------------------------------------------------------------------
(* The runtime spec and its JSON encoding.                                 *)

Nil == "nil"

NewSpecAllCaps(a, w, u, rootPath, mounts) ==
    [Process |-> [Args |-> a,
                  Env |-> << <<"HOME=/tmp">>, <<"PATH=/usr/local/bin:/usr/bin:/bin">>,
                             <<"USER=", u.name>> >>,
                  Cwd |-> w,
                  User |-> [UID |-> u.uid, GID |-> u.gid, Username |-> u.name],
                  Capabilities |-> "CAP_SYS_ADMIN"],
     Hostname |-> "runsc-gvrun",
     Root |-> [Path |-> rootPath],
     Mounts |-> mounts]

\* spec := &specs.Spec{...}
NewSpec(a, w, u, rootPath, mounts) ==
    [Process |-> [Args |-> a,
                  Env |-> << <<"HOME=/tmp">>, <<"PATH=/usr/local/bin:/usr/bin:/bin">>,
                             <<"USER=", u.name>> >>,
                  Cwd |-> w,
                  User |-> [UID |-> u.uid, GID |-> u.gid, Username |-> u.name],
                  Capabilities |-> Nil],
     Hostname |-> "runsc-gvrun",
     Root |-> [Path |-> rootPath],
     Mounts |-> mounts]

\* One mount as a JSON object; an empty options list is left out.
EncodeMount(m) ==
    LET base == [destination |-> m.Destination, type |-> m.Type, source |-> m.Source]
    IN  IF m.Options = <<>> THEN base ELSE base @@ [options |-> m.Options]

\* json.NewEncoder(specFile).Encode(spec): the document written to
\* config.json; a nil capability set is left out.
Encode(s) ==
    LET p == s.Process
        proc == [args |-> p.Args, env |-> p.Env, cwd |-> p.Cwd,
                 user |-> [uid |-> p.User.UID, gid |-> p.User.GID,
                           username |-> p.User.Username]]
    IN  [process |-> IF p.Capabilities = Nil THEN proc
                     ELSE proc @@ [capabilities |-> p.Capabilities],
         hostname |-> s.Hostname,
         root |-> [path |-> s.Root.Path],
         mounts |-> [i \in 1..Len(s.Mounts) |-> EncodeMount(s.Mounts[i])]]

----------------------------------------------------------------------------
(* The bundle on disk, the deferred calls and the ways out of run().       *)

NoBundle == [exists |-> FALSE, name |-> <<>>, rootfs |-> FALSE,
             config |-> FALSE, doc |-> <<>>]

RemoveOnly(b, d) ==
    IF b.exists /\ b.name = d /\ ~b.rootfs /\ ~b.config THEN NoBundle ELSE b

\* os.RemoveAll(dir): the directory and everything in it.
RemoveAll(b, d) == IF b.exists /\ b.name = d THEN NoBundle ELSE b

\* return e (e = "" is `return nil`): the deferred calls run next.
Return(e) ==
    /\ err' = e
    /\ panicking' = FALSE
    /\ pc' = "deferred"
    /\ defers' = defers

PanicAbort(e) ==
    /\ err' = e
    /\ panicking' = TRUE
    /\ pc' = "deferred"
    /\ defers' = <<>>

\* panic(e) in resolvedMount: run() unwinds and its deferred calls run.
Panic(e) ==
    /\ err' = e
    /\ panicking' = TRUE
    /\ pc' = "deferred"
    /\ defers' = defers

\* The launcher's exit status: 2 for a panic, log.Fatal's 1 for an error
\* return of run(), 0 when main returns.
ExitStatus(e, p) == IF p THEN 2 ELSE IF e # "" THEN 1 ELSE 0

----------------------------------------------------------------------------
(* RLIMIT_NOFILE and the command line of the runtime.                      *)

fileLimit == 32768

LimitValues == {1024, 32768, 65536}

Rlimits == {l \in [Cur : LimitValues, Max : LimitValues] : l.Cur <= l.Max}

TooLow(l) == l.Max < fileLimit

NewLimitBoth(l) == [Cur |-> fileLimit, Max |-> fileLimit]

\* limit.Cur = fileLimit
NewLimit(l) == [l EXCEPT !.Cur = fileLimit]

RunscArgsNoIsolation(bin, d) ==
    <<bin, <<"run">>, <<"--bundle">>, d, <<"gvrun">>>>

\* cmd.Args after exec.Command(*runscBin) and the appends.
RunscArgs(bin, d) ==
    <<bin, <<"--overlay">>, <<"--network=none">>, <<"run">>, <<"--bundle">>, d,
      <<"gvrun">>>>

ExitCodes == {0, 1, 2, 3}

RunErrStartOnly(started, code) == ~started

\* Whether cmd.Run() returns an error: the command did not start, or it
\* exited with a non-zero status.
RunErr(started, code) == ~started \/ code # 0

----------------------------------------------------------------------------
(* Initial states: the command line, the host and the process as main()    *)
(* finds them.                                                             *)

ArgChoices == { <<>>, << <<"/bin/echo">> >>, << <<"echo">>, <<"hello">> >> }

RunscChoices == { <<>>, <<"/usr/local/bin/runsc">> }

TmpNames == { <<"/tmp/gvrun1">>, <<"/tmp/gvrun2">> }

NoRuntime == [started |-> FALSE, exited |-> FALSE, code |-> 0,
              nofile |-> [Cur |-> 0, Max |-> 0]]

Init ==
    /\ pc = "main"
    /\ args \in ArgChoices
    /\ runscBin \in RunscChoices
    /\ extraEnv \in StringsOver({"K=v", Comma}, MaxEnvLen)
    /\ extraDirs \in StringsOver({"/wd", "/e", Comma}, MaxDirsLen)
    /\ fs \in FileSystems
    /\ rlimit0 \in Rlimits
    /\ rlimit = rlimit0
    /\ limit = [Cur |-> 0, Max |-> 0]
    /\ dir = <<>>
    /\ bundle = NoBundle
    /\ wd = <<>>
    /\ binary = <<>>
    /\ user = NoUser
    /\ spec = <<>>
    /\ defers = <<>>
    /\ specFileOpen = FALSE
    /\ err = ""
    /\ panicking = FALSE
    /\ cmdArgs = <<>>
    /\ runtime = NoRuntime
    /\ setrlimitCalls = 0
    /\ exitCode = -1

inputs == <<args, runscBin, extraEnv, extraDirs, fs, rlimit0>>

----------------------------------------------------------------------------
(* main() and run(), one action per step.                                  *)

\* main: flag.Parse and the two usage checks (log.Fatalf exits with 1).
Main ==
    /\ pc = "main"
    /\ IF Len(args) = 0 \/ runscBin = <<>>
       THEN /\ pc' = "exited"
            /\ exitCode' = 1
            /\ err' = "usage"
       ELSE /\ pc' = "TempDir"
            /\ UNCHANGED <<exitCode, err>>
    /\ UNCHANGED <<inputs, rlimit, limit, dir, bundle, wd, binary, user, spec,
                   defers, specFileOpen, panicking, cmdArgs, runtime,
                   setrlimitCalls>>

\* dir, err := ioutil.TempDir("", "gvrun"); defer os.RemoveAll(dir)
TempDir ==
    /\ pc = "TempDir"
    /\ \E ok \in BOOLEAN, name \in TmpNames :
          IF ok
          THEN /\ dir' = name
               /\ bundle' = [NoBundle EXCEPT !.exists = TRUE, !.name = name]
               /\ defers' = <<"os.RemoveAll">> \o defers
               /\ pc' = "Mkdir"
               /\ UNCHANGED <<err, panicking>>
          ELSE /\ Return("error creating temp directory")
               /\ UNCHANGED <<dir, bundle>>
    /\ UNCHANGED <<inputs, rlimit, limit, wd, binary, user, spec, specFileOpen,
                   cmdArgs, runtime, setrlimitCalls, exitCode>>

\* os.Mkdir(rootPath, 0755)
Mkdir ==
    /\ pc = "Mkdir"
    /\ \E ok \in BOOLEAN :
          IF ok
          THEN /\ bundle' = [bundle EXCEPT !.rootfs = TRUE]
               /\ pc' = "Create"
               /\ UNCHANGED <<err, panicking, defers>>
          ELSE /\ Return("error creating root directory")
               /\ UNCHANGED bundle
    /\ UNCHANGED <<inputs, rlimit, limit, dir, wd, binary, user, spec,
                   specFileOpen, cmdArgs, runtime, setrlimitCalls, exitCode>>

\* specFile, err := os.Create(specPath); defer specFile.Close()
Create ==
    /\ pc = "Create"
    /\ \E ok \in BOOLEAN :
          IF ok
          THEN /\ bundle' = [bundle EXCEPT !.config = TRUE]
               /\ specFileOpen' = TRUE
               /\ defers' = <<"specFile.Close">> \o defers
               /\ pc' = "Getwd"
               /\ UNCHANGED <<err, panicking>>
          ELSE /\ Return("error creating config.json")
               /\ UNCHANGED <<bundle, specFileOpen>>
    /\ UNCHANGED <<inputs, rlimit, limit, dir, wd, binary, user, spec,
                   cmdArgs, runtime, setrlimitCalls, exitCode>>

\* wd, err := os.Getwd()
Getwd ==
    /\ pc = "Getwd"
    /\ \E ok \in BOOLEAN :
          IF ok
          THEN /\ wd' = WorkDir
               /\ pc' = "Abs"
               /\ UNCHANGED <<err, panicking, defers>>
          ELSE /\ Return("error finding working directory")
               /\ UNCHANGED wd
    /\ UNCHANGED <<inputs, rlimit, limit, dir, bundle, binary, user, spec,
                   specFileOpen, cmdArgs, runtime, setrlimitCalls, exitCode>>

\* binary, err := filepath.Abs(args[0]); Abs fails only when it has to ask
\* for the working directory and cannot get it.
AbsBinary ==
    /\ pc = "Abs"
    /\ \E ok \in BOOLEAN :
          IF ok \/ IsAbs(args[1])
          THEN /\ binary' = Abs(wd, args[1])
               /\ pc' = "originalUser"
               /\ UNCHANGED <<err, panicking, defers>>
          ELSE /\ Return("error computing absolute binary path")
               /\ UNCHANGED binary
    /\ UNCHANGED <<inputs, rlimit, limit, dir, bundle, wd, user, spec,
                   specFileOpen, cmdArgs, runtime, setrlimitCalls, exitCode>>

\* uid, gid, username, err := originalUser()
OriginalUser ==
    /\ pc = "originalUser"
    /\ \E env \in SudoEnvs :
          LET u == originalUser(env)
          IN  IF u.ok
              THEN /\ user' = u
                   /\ pc' = "Spec"
                   /\ UNCHANGED <<err, panicking, defers>>
              ELSE /\ Return("error determining user")
                   /\ UNCHANGED user
    /\ UNCHANGED <<inputs, rlimit, limit, dir, bundle, wd, binary, spec,
                   specFileOpen, cmdArgs, runtime, setrlimitCalls, exitCode>>

\* spec := &specs.Spec{...} with the eight fixed mounts.
BuildSpec ==
    /\ pc = "Spec"
    /\ LET r == MountsLiteral(fs, <<binary, wd>> \o FixedLibs)
       IN  IF r.ok
           THEN /\ spec' = <<NewSpec(args, wd, user, dir \o <<"/rootfs">>, r.mounts)>>
                /\ pc' = "extraEnv"
                /\ UNCHANGED <<err, panicking, defers>>
           ELSE /\ Panic("failed to resolve symlinks")
                /\ UNCHANGED spec
    /\ UNCHANGED <<inputs, rlimit, limit, dir, bundle, wd, binary, user,
                   specFileOpen, cmdArgs, runtime, setrlimitCalls, exitCode>>

\* if *extraEnv != "" { ... append each piece ... }
ExtraEnv ==
    /\ pc = "extraEnv"
    /\ spec' = IF extraEnv # <<>>
               THEN <<[spec[1] EXCEPT !.Process.Env = @ \o Split(extraEnv)]>>
               ELSE spec
    /\ pc' = "extraDirs"
    /\ UNCHANGED <<inputs, rlimit, limit, dir, bundle, wd, binary, user, defers,
                   specFileOpen, err, panicking, cmdArgs, runtime,
                   setrlimitCalls, exitCode>>

\* if *extraDirs != "" { ... append resolvedMount(d) for each piece ... }
ExtraDirs ==
    /\ pc = "extraDirs"
    /\ IF extraDirs # <<>>
       THEN LET r == AppendResolved(fs, spec[1].Mounts, Split(extraDirs))
            IN  /\ spec' = <<[spec[1] EXCEPT !.Mounts = r.mounts]>>
                /\ IF r.ok
                   THEN /\ pc' = "Encode"
                        /\ UNCHANGED <<err, panicking, defers>>
                   ELSE Panic("failed to resolve symlinks")
       ELSE /\ pc' = "Encode"
            /\ UNCHANGED <<spec, err, panicking, defers>>
    /\ UNCHANGED <<inputs, rlimit, limit, dir, bundle, wd, binary, user,
                   specFileOpen, cmdArgs, runtime, setrlimitCalls, exitCode>>

\* json.NewEncoder(specFile).Encode(spec)
EncodeSpec ==
    /\ pc = "Encode"
    /\ \E ok \in BOOLEAN :
          IF ok
          THEN /\ bundle' = [bundle EXCEPT !.doc = <<Encode(spec[1])>>]
               /\ pc' = "Getrlimit"
               /\ UNCHANGED <<err, panicking, defers>>
          ELSE /\ Return("error writing config.json")
               /\ UNCHANGED bundle
    /\ UNCHANGED <<inputs, rlimit, limit, dir, wd, binary, user, spec,
                   specFileOpen, cmdArgs, runtime, setrlimitCalls, exitCode>>

\* syscall.Getrlimit(syscall.RLIMIT_NOFILE, &limit)
Getrlimit ==
    /\ pc = "Getrlimit"
    /\ \E ok \in BOOLEAN :
          IF ok
          THEN /\ limit' = rlimit
               /\ pc' = "checkLimit"
               /\ UNCHANGED <<err, panicking, defers>>
          ELSE /\ Return("error getting rlimit")
               /\ UNCHANGED limit
    /\ UNCHANGED <<inputs, rlimit, dir, bundle, wd, binary, user, spec,
                   specFileOpen, cmdArgs, runtime, setrlimitCalls, exitCode>>

\* if limit.Max < fileLimit { return ... }; limit.Cur = fileLimit
CheckLimit ==
    /\ pc = "checkLimit"
    /\ IF TooLow(limit)
       THEN /\ Return("file limit too low")
            /\ UNCHANGED limit
       ELSE /\ limit' = NewLimit(limit)
            /\ pc' = "Setrlimit"
            /\ UNCHANGED <<err, panicking, defers>>
    /\ UNCHANGED <<inputs, rlimit, dir, bundle, wd, binary, user, spec,
                   specFileOpen, cmdArgs, runtime, setrlimitCalls, exitCode>>

SetrlimitIgnoreErr ==
    /\ pc = "Setrlimit"
    /\ setrlimitCalls' = setrlimitCalls + 1
    /\ \E ok \in IF limit.Cur > limit.Max THEN {FALSE} ELSE BOOLEAN :
          /\ rlimit' = IF ok THEN limit ELSE rlimit
          /\ err' = IF ok THEN err ELSE "error setting rlimit"
          /\ pc' = "Start"
          /\ UNCHANGED <<panicking, defers>>
    /\ UNCHANGED <<inputs, limit, dir, bundle, wd, binary, user, spec,
                   specFileOpen, cmdArgs, runtime, exitCode>>

\* syscall.Setrlimit(syscall.RLIMIT_NOFILE, &limit); the kernel refuses a
\* soft limit above the hard limit.
Setrlimit ==
    /\ pc = "Setrlimit"
    /\ setrlimitCalls' = setrlimitCalls + 1
    /\ \E ok \in IF limit.Cur > limit.Max THEN {FALSE} ELSE BOOLEAN :
          IF ok
          THEN /\ rlimit' = limit
               /\ pc' = "Start"
               /\ UNCHANGED <<err, panicking, defers>>
          ELSE /\ Return("error setting rlimit")
               /\ UNCHANGED rlimit
    /\ UNCHANGED <<inputs, limit, dir, bundle, wd, binary, user, spec,
                   specFileOpen, cmdArgs, runtime, exitCode>>

\* cmd := exec.Command(*runscBin) with its arguments; cmd.Run() starts the
\* runtime, which inherits the process's RLIMIT_NOFILE, or fails to.
Start ==
    /\ pc = "Start"
    /\ cmdArgs' = RunscArgs(runscBin, dir)
    /\ \E ok \in BOOLEAN :
          IF ok
          THEN /\ runtime' = [NoRuntime EXCEPT !.started = TRUE, !.nofile = rlimit]
               /\ pc' = "Wait"
               /\ UNCHANGED <<err, panicking, defers>>
          ELSE /\ IF RunErr(FALSE, 0)
                  THEN Return("command failed")
                  ELSE Return("")
               /\ UNCHANGED runtime
    /\ UNCHANGED <<inputs, rlimit, limit, dir, bundle, wd, binary, user, spec,
                   specFileOpen, setrlimitCalls, exitCode>>

\* cmd.Run() waits for the runtime to exit; run() returns its error.
Wait ==
    /\ pc = "Wait"
    /\ \E code \in ExitCodes :
          /\ runtime' = [runtime EXCEPT !.exited = TRUE, !.code = code]
          /\ IF RunErr(TRUE, code)
             THEN Return("command failed")
             ELSE Return("")
    /\ UNCHANGED <<inputs, rlimit, limit, dir, bundle, wd, binary, user, spec,
                   specFileOpen, cmdArgs, setrlimitCalls, exitCode>>

\* One deferred call of run(), last pushed first.
RunDeferred ==
    /\ pc = "deferred"
    /\ defers # <<>>
    /\ defers' = Tail(defers)
    /\ IF Head(defers) = "specFile.Close"
       THEN /\ specFileOpen' = FALSE
            /\ UNCHANGED bundle
       ELSE /\ bundle' = RemoveAll(bundle, dir)
            /\ UNCHANGED specFileOpen
    /\ UNCHANGED <<inputs, pc, rlimit, limit, dir, wd, binary, user, spec, err,
                   panicking, cmdArgs, runtime, setrlimitCalls, exitCode>>

\* The process ends: the panic's crash, log.Fatal(err), or main returning.
Exit ==
    /\ pc = "deferred"
    /\ defers = <<>>
    /\ pc' = "exited"
    /\ exitCode' = ExitStatus(err, panicking)
    /\ UNCHANGED <<inputs, rlimit, limit, dir, bundle, wd, binary, user, spec,
                   defers, specFileOpen, err, panicking, cmdArgs, runtime,
                   setrlimitCalls>>

Next ==
    \/ Main
    \/ TempDir
    \/ Mkdir
    \/ Create
    \/ Getwd
    \/ AbsBinary
    \/ OriginalUser
    \/ BuildSpec
    \/ ExtraEnv
    \/ ExtraDirs
    \/ EncodeSpec
    \/ Getrlimit
    \/ CheckLimit
    \/ Setrlimit
    \/ Start
    \/ Wait
    \/ RunDeferred
    \/ Exit

Spec == Init /\ [][Next]_vars

----------------------------------------------------------------------------
(* Properties.                                                             *)

Exited == pc = "exited"

ConfigWritten == bundle.doc # <<>>

\* The mounts of the document in config.json.
DocMounts == bundle.doc[1].mounts

\* The paths of the Mounts literal, in its order.
FixedPaths == <<binary, wd>> \o FixedLibs

ExtraPaths == IF extraDirs = <<>> THEN <<>> ELSE Split(extraDirs)

MountsTo(p) == {i \in 1..Len(DocMounts) : DocMounts[i].destination = p}

\* run() failed in a step before the runtime is invoked.
FailedBeforeInvoking == err \notin {"", "command failed"}

Phase(p) ==
    CASE p = "main" -> 0                                            \* Initializing
      [] p \in {"TempDir", "Mkdir", "Create", "Getwd", "Abs", "originalUser",
                "Spec", "extraEnv", "extraDirs", "Encode"} -> 1     \* BuildingBundle
      [] p \in {"Getrlimit", "checkLimit", "Setrlimit"} -> 2        \* LimitingResources
      [] p \in {"Start", "Wait"} -> 3                               \* Invoking
      [] OTHER -> 4                                                 \* Succeeded, Failed

RaisedLimit == [Cur |-> fileLimit, Max |-> rlimit0.Max]

\* C1: once the launcher has exited, a temporary directory that run()
\* created is gone, with everything in it, whichever way run() ended.
C1_BundleRemovedAtExit ==
    (Exited /\ dir # <<>>) => bundle = NoBundle

\* C1 witness: the launcher has exited after a panic of resolvedMount on an
\* extra path, with the directory, rootfs and config.json created before.
C1_Witness ==
    Exited /\ dir # <<>> /\ panicking /\ spec # <<>> /\ exitCode = 2

\* C2 as stated: with a hard limit below fileLimit no state has the
\* temporary directory on disk.
C2_NoBundleWhenHardLimitLow ==
    rlimit0.Max < fileLimit => ~bundle.exists

\* C2 amended: with a hard limit below fileLimit the runtime is never
\* started and the launcher exits non-zero with the temporary directory,
\* which it did create, removed.
C2_FailsBeforeRuntimeAndCleansUp ==
    rlimit0.Max < fileLimit =>
        /\ ~runtime.started
        /\ cmdArgs = <<>>
        /\ Exited => (exitCode # 0 /\ bundle = NoBundle)

\* C2 witness: run() returned "file limit too low" after it had created
\* the directory, and the launcher has exited.
C2_Witness ==
    Exited /\ err = "file limit too low" /\ dir # <<>> /\ rlimit0.Max < fileLimit

\* C3 as stated: the launcher exits with the runtime's exit code.
C3_ExitCodePropagated ==
    (Exited /\ runtime.exited) => exitCode = runtime.code

\* C3 amended: after cmd.Run() the launcher exits with 0 exactly when the
\* runtime started and exited with 0, and with 1 otherwise: every non-zero
\* exit code of the runtime, and a failure to start it, become 1.
C3_ExitZeroOrOne ==
    (Exited /\ cmdArgs # <<>>) =>
        exitCode = IF runtime.exited /\ runtime.code = 0 THEN 0 ELSE 1

\* C3 witness: the runtime exited with 3 and the launcher with 1.
C3_Witness ==
    Exited /\ runtime.exited /\ runtime.code = 3 /\ exitCode = 1

\* C4: every step moves forward through Initializing, BuildingBundle,
\* LimitingResources, Invoking, terminal; and after a step that left run()
\* failed in bundle building or resource limiting, the runtime has not been
\* and is not executed.
C4_ForwardOnly ==
    [][ /\ Phase(pc') >= Phase(pc)
        /\ FailedBeforeInvoking' => (cmdArgs' = <<>> /\ ~runtime'.started) ]_vars

\* C4 witness: the launcher has exited after setrlimit failed.
C4_Witness ==
    Exited /\ err = "error setting rlimit" /\ setrlimitCalls = 1

\* C5: the spec, once built, has a nil capability set, and so has the
\* document in config.json, whatever -extra_env and -extra_dirs hold.
C5_NoCapabilities ==
    /\ spec # <<>> => spec[1].Process.Capabilities = Nil
    /\ ConfigWritten => "capabilities" \notin DOMAIN bundle.doc[1].process

\* C5 witness: config.json is written with extra variables and extra paths.
C5_Witness ==
    ConfigWritten /\ Len(ExtraPaths) = 2 /\ extraEnv = <<"K=v">>

\* C6 as stated: each extra path is the destination of exactly one mount,
\* whose source is the resolved path.
C6_ExactlyOneMountPerExtra ==
    ConfigWritten =>
        \A p \in Range(ExtraPaths) :
            /\ Cardinality(MountsTo(p)) = 1
            /\ \A i \in MountsTo(p) : DocMounts[i].source = EvalSymlinks(fs, p).path

\* C6 amended: each extra path is the destination of as many mounts as it
\* has occurrences in the fixed paths and the extra list together (at least
\* one), and the source of each is the resolved path.
C6_OneMountPerOccurrence ==
    ConfigWritten =>
        \A p \in Range(ExtraPaths) :
            /\ Cardinality(MountsTo(p)) = Count(FixedPaths \o ExtraPaths, p)
            /\ Cardinality(MountsTo(p)) >= 1
            /\ \A i \in MountsTo(p) :
                  /\ EvalSymlinks(fs, p).ok
                  /\ DocMounts[i].source = EvalSymlinks(fs, p).path

\* C6 witness: config.json is written for -extra_dirs /e,/e where /e is a
\* symbolic link.
C6_Witness ==
    /\ ConfigWritten
    /\ ExtraPaths = << <<"/e">>, <<"/e">> >>
    /\ EvalSymlinks(fs, <<"/e">>).path = <<"/real_e">>

\* C7 as stated: every mount is a bind mount marked read-only, in the order
\* binary, working directory, libraries, extra paths.
C7_BindReadOnlyInOrder ==
    ConfigWritten =>
        /\ \A i \in 1..Len(DocMounts) :
              /\ DocMounts[i].type = "bind"
              /\ "options" \in DOMAIN DocMounts[i]
              /\ "ro" \in Range(DocMounts[i].options)
        /\ [i \in 1..Len(DocMounts) |-> DocMounts[i].destination]
              = FixedPaths \o ExtraPaths

\* C7 amended: every mount is a bind mount with no options (none is marked
\* read-only), in the order binary, working directory, libraries, extras.
C7_BindInOrder ==
    ConfigWritten =>
        /\ \A i \in 1..Len(DocMounts) :
              /\ DocMounts[i].type = "bind"
              /\ "options" \notin DOMAIN DocMounts[i]
        /\ [i \in 1..Len(DocMounts) |-> DocMounts[i].destination]
              = FixedPaths \o ExtraPaths

\* C7 witness: config.json is written with two different extra paths.
C7_Witness ==
    ConfigWritten /\ ExtraPaths = << <<"/e">>, <<"/wd">> >>

\* C8: the command that is run has the arguments runsc, --overlay,
\* --network=none, run, --bundle, the directory of this run, gvrun; and
\* while the runtime runs that directory is on disk.
C8_RuntimeArgv ==
    /\ runtime.started => cmdArgs # <<>>
    /\ cmdArgs # <<>> =>
          /\ Len(cmdArgs) = 7
          /\ cmdArgs[1] = runscBin
          /\ cmdArgs[2] = <<"--overlay">>
          /\ cmdArgs[3] = <<"--network=none">>
          /\ cmdArgs[4] = <<"run">>
          /\ cmdArgs[5] = <<"--bundle">>
          /\ cmdArgs[6] = dir /\ dir \in TmpNames
          /\ cmdArgs[7] = <<"gvrun">>
    /\ pc = "Wait" => (bundle.exists /\ bundle.name = dir /\ ConfigWritten)

\* C8 witness: the runtime is running, started with extra variables and
\* extra paths on the launcher's command line.
C8_Witness ==
    pc = "Wait" /\ runtime.started /\ extraEnv # <<>> /\ extraDirs # <<>>

\* C9: setrlimit is called at most once and never changes the hard limit;
\* a runtime that is executed finds the soft limit at fileLimit; with a
\* hard limit below fileLimit setrlimit is not called, the limits stay as
\* read, the runtime is not executed and the launcher fails.
C9_LimiterOutcome ==
    /\ setrlimitCalls <= 1
    /\ rlimit \in {rlimit0, RaisedLimit}
    /\ cmdArgs # <<>> => (rlimit = RaisedLimit /\ setrlimitCalls = 1)
    /\ runtime.started => runtime.nofile = RaisedLimit
    /\ rlimit0.Max >= fileLimit /\ pc = "Start" => rlimit = RaisedLimit
    /\ rlimit0.Max < fileLimit =>
          /\ setrlimitCalls = 0
          /\ rlimit = rlimit0
          /\ cmdArgs = <<>> /\ ~runtime.started
          /\ Exited => exitCode # 0

\* C9 witness: the runtime was started by a launcher that began with the
\* limits 1024/65536.
C9_Witness ==
    /\ runtime.started
    /\ rlimit0 = [Cur |-> 1024, Max |-> 65536]
    /\ runtime.nofile = [Cur |-> fileLimit, Max |-> 65536]

\* C10 as stated: the soft limit the runtime inherits is at least the soft
\* limit the launcher started with.
C10_SoftLimitOnlyRaised ==
    runtime.started => runtime.nofile.Cur >= rlimit0.Cur

====
